---- MODULE Spec2Model ----
(***************************************************************************)
(* Model of app.py of the Barka AV dashboard: the header-detecting table   *)
(* parser, the two dataset fetchers with their local fallback and their    *)
(* 0..1 normalization, and the top of the main script that calls them.     *)
(*                                                                         *)
(* A text is a sequence of lines; a line is a separator ("," or " ") and   *)
(* the tokens it separates.  Numbers are exact rationals n/d; d = 0 is a   *)
(* non-finite float (0/0 is NaN, 1/0 and -1/0 are the infinities).         *)
(***************************************************************************)
EXTENDS Integers, Sequences, FiniteSets, TLC

VARIABLES pc, caller, txt, df, urls, io, diags, ret, f1_df, f4_df, page

vars == <<pc, caller, txt, df, urls, io, diags, ret, f1_df, f4_df, page>>

(***************************************************************************)
(* Bounds of the model and constants of the program.                       *)
(***************************************************************************)
MaxRows == 3
MaxUrls == 2
MaxLines == 41
HeaderScan == 20
YearScan == 40

(***************************************************************************)
(* Exact arithmetic standing for the float arithmetic of pandas.           *)
(***************************************************************************)
Abs(i) == IF i < 0 THEN 0 - i ELSE i

RECURSIVE Gcd(_, _)
Gcd(a, b) == IF b = 0 THEN a ELSE Gcd(b, a % b)

NaN == [n |-> 0, d |-> 0]

Sign(i) == IF i < 0 THEN 0 - 1 ELSE IF i > 0 THEN 1 ELSE 0

\* n/d in lowest terms with a positive denominator; x/0 is non-finite.
Rat(n, d) ==
    IF d = 0 THEN [n |-> Sign(n), d |-> 0]
    ELSE LET g == Gcd(Abs(n), Abs(d))
             s == Sign(d)
         IN  [n |-> (s * n) \div g, d |-> (s * d) \div g]

IntVal(i) == [n |-> i, d |-> 1]

IsNaN(a) == a.d = 0 /\ a.n = 0

IsFinite(a) == a.d > 0

RLe(a, b) == a.n * b.d <= b.n * a.d

RLt(a, b) == a.n * b.d < b.n * a.d

RAdd(a, b) ==
    IF IsNaN(a) \/ IsNaN(b) THEN NaN ELSE Rat(a.n * b.d + b.n * a.d, a.d * b.d)

RSub(a, b) ==
    IF IsNaN(a) \/ IsNaN(b) THEN NaN ELSE Rat(a.n * b.d - b.n * a.d, a.d * b.d)

RDiv(a, b) ==
    IF IsNaN(a) \/ IsNaN(b) THEN NaN ELSE Rat(a.n * b.d, a.d * b.n)

(***************************************************************************)
(* Tokens.  What a token contains, and what it converts to, is a lookup    *)
(* over the vocabulary of the modelled files.                              *)
(***************************************************************************)
months == <<"Jan", "Feb", "Mar", "Apr", "May", "Jun",
            "Jul", "Aug", "Sep", "Oct", "Nov", "Dec">>

alt_cols == <<"J-D", "J_D", "J_D.1", "J_D.0", "Annual", "Yearly">>

Range(s) == {s[i] : i \in DOMAIN s}

\* "Year" in tok
HasYear(tok) == tok \in {"Year", "Yearly"}

\* "Jan" in tok, "Dec" in tok
HasJan(tok) == tok = "Jan"

HasDec(tok) == tok = "Dec"

\* float(tok) of the tokens that are numerals; the others do not convert.
IsNumeral(tok) == tok \in {"-1", "0", "1", "2", "3", "2019", "2020", "2021", "2022"}

NumeralValue(tok) ==
    CASE tok = "-1" -> IntVal(0 - 1)
      [] tok = "0" -> IntVal(0)
      [] tok = "1" -> IntVal(1)
      [] tok = "2" -> IntVal(2)
      [] tok = "3" -> IntVal(3)
      [] tok = "2019" -> IntVal(2019)
      [] tok = "2020" -> IntVal(2020)
      [] tok = "2021" -> IntVal(2021)
      [] tok = "2022" -> IntVal(2022)
      [] OTHER -> NaN

\* the tokens read_csv reads as a missing value
IsNaToken(tok) == tok \in {"", "NaN", "NA"}

\* the tokens pd.to_datetime parses, as days on an increasing scale
IsDate(tok) == tok \in {"2020-01-01", "2020-02-01", "2020-03-01", "2020-04-01"}

DateValue(tok) ==
    CASE tok = "2020-01-01" -> IntVal(18262)
      [] tok = "2020-02-01" -> IntVal(18293)
      [] tok = "2020-03-01" -> IntVal(18322)
      [] tok = "2020-04-01" -> IntVal(18353)
      [] OTHER -> NaN

(***************************************************************************)
(* Lines and their splitting.                                              *)
(***************************************************************************)
Line(sep, toks) == [sep |-> sep, toks |-> toks]

RECURSIVE Join(_, _)
Join(toks, sep) ==
    IF Len(toks) = 0 THEN ""
    ELSE IF Len(toks) = 1 THEN toks[1]
    ELSE toks[1] \o sep \o Join(Tail(toks), sep)

\* the fields of a line split at `sep`: the tokens when the line is separated
\* by it, else the whole line as one field
Fields(line, sep) ==
    IF Len(line.toks) = 0 THEN <<>>
    ELSE IF line.sep = sep THEN line.toks
    ELSE <<Join(line.toks, line.sep)>>

LineHasYear(line) == \E i \in DOMAIN line.toks : HasYear(line.toks[i])

LineHasMonth(line) ==
    \E i \in DOMAIN line.toks : HasJan(line.toks[i]) \/ HasDec(line.toks[i])

(***************************************************************************)
(* DataFrames: the ordered column names, the names of the columns of a     *)
(* numeric dtype, and the rows in order.  A cell is a string (s) or a      *)
(* number (v), by the dtype of its column.                                 *)
(***************************************************************************)
Str(tok) == [s |-> tok, v |-> NaN]

Num(r) == [s |-> "", v |-> r]

EmptyFrame == [cols |-> <<>>, num |-> {}, rows |-> <<>>]

Raised == [ok |-> FALSE, df |-> EmptyFrame]

Returned(frame) == [ok |-> TRUE, df |-> frame]

HasCol(frame, c) == c \in Range(frame.cols)

\* df.empty
IsEmpty(frame) == Len(frame.cols) = 0 \/ Len(frame.rows) = 0

IsBlank(line) == Len(line.toks) = 0

NonBlank(line) == ~IsBlank(line)

\* pd.read_csv(io.StringIO(text), sep=sep): blank lines are skipped, the first
\* line left is the header, a short row is padded with missing values, a row
\* longer than the header is a ParserError, no line at all an EmptyDataError.
\* A column whose every cell is a numeral or missing gets a numeric dtype.
ReadCsv(lines, sep) ==
    LET ls == SelectSeq(lines, NonBlank)
    IN  IF Len(ls) = 0 THEN Raised
        ELSE
          LET header == Fields(ls[1], sep)
              body == Tail(ls)
              raw(i, j) == LET f == Fields(body[i], sep)
                           IN  IF j <= Len(f) THEN f[j] ELSE ""
              numeric(j) ==
                  /\ Len(body) > 0
                  /\ \A i \in DOMAIN body :
                        IsNumeral(raw(i, j)) \/ IsNaToken(raw(i, j))
              idx(c) == CHOOSE j \in DOMAIN header : header[j] = c
              cell(i, j) == IF numeric(j) THEN Num(NumeralValue(raw(i, j)))
                            ELSE Str(raw(i, j))
          IN  IF \E i \in DOMAIN body : Len(Fields(body[i], sep)) > Len(header)
              THEN Raised
              ELSE Returned(
                     [cols |-> header,
                      num |-> {header[j] : j \in {k \in DOMAIN header : numeric(k)}},
                      rows |-> [i \in DOMAIN body |->
                                  [c \in Range(header) |-> cell(i, idx(c))]]])

\* the first loop scanning as many lines as the second
RECURSIVE ScanHeaderWide(_, _)
ScanHeaderWide(lines, i) ==
    IF i >= Len(lines) \/ i >= YearScan THEN 0 - 1
    ELSE IF LineHasYear(lines[i + 1]) /\ LineHasMonth(lines[i + 1]) THEN i
    ELSE ScanHeaderWide(lines, i + 1)

\* the first loop of parse_whitespace_table_from_text: the index (from 0) of
\* the first of the first HeaderScan lines holding 'Year' and 'Jan' or 'Dec';
\* -1 stands for None
RECURSIVE ScanHeader(_, _)
ScanHeader(lines, i) ==
    IF i >= Len(lines) \/ i >= HeaderScan THEN 0 - 1
    ELSE IF LineHasYear(lines[i + 1]) /\ LineHasMonth(lines[i + 1]) THEN i
    ELSE ScanHeader(lines, i + 1)

\* the second loop: the first of the first YearScan lines holding 'Year'
RECURSIVE ScanYear(_, _)
ScanYear(lines, i) ==
    IF i >= Len(lines) \/ i >= YearScan THEN 0 - 1
    ELSE IF LineHasYear(lines[i + 1]) THEN i
    ELSE ScanYear(lines, i + 1)

header_idx(lines) ==
    IF ScanHeader(lines, 0) >= 0 THEN ScanHeader(lines, 0) ELSE ScanYear(lines, 0)

parse_whitespace_table_from_text(lines) ==
    LET h == header_idx(lines)
    IN  IF h < 0
        THEN LET r == ReadCsv(lines, ",")
             IN  IF r.ok THEN r ELSE Returned(EmptyFrame)
        ELSE ReadCsv(SubSeq(lines, h + 1, Len(lines)), " ")

(***************************************************************************)
(* Column operations of pandas used by the fetchers.                       *)
(***************************************************************************)
\* the number in a cell of column c: pd.to_numeric(..., errors="coerce")
CellNum(frame, row, c) ==
    IF c \in frame.num THEN row[c].v
    ELSE IF IsNumeral(row[c].s) THEN NumeralValue(row[c].s)
    ELSE NaN

\* df[c] = vals, a column of numbers: replaced in place, or appended
SetCol(frame, c, vals) ==
    [cols |-> IF HasCol(frame, c) THEN frame.cols ELSE Append(frame.cols, c),
     num |-> frame.num \cup {c},
     rows |-> [i \in DOMAIN frame.rows |->
                 [x \in DOMAIN frame.rows[i] \cup {c} |->
                     IF x = c THEN Num(vals[i]) ELSE frame.rows[i][x]]]]

\* df.rename(columns={old: new})
Rename(frame, old, new) ==
    LET nm(x) == IF x = old THEN new ELSE x
        back(x) == IF x = new THEN old ELSE x
    IN  IF ~HasCol(frame, old) THEN frame
        ELSE [cols |-> [j \in DOMAIN frame.cols |-> nm(frame.cols[j])],
              num |-> {nm(x) : x \in frame.num},
              rows |-> [i \in DOMAIN frame.rows |->
                          [x \in {nm(y) : y \in DOMAIN frame.rows[i]} |->
                              frame.rows[i][back(x)]]]]

\* df[c] = pd.to_numeric(df[c], errors="coerce") for every listed column present
RECURSIVE ToNumericCols(_, _)
ToNumericCols(frame, names) ==
    IF Len(names) = 0 THEN frame
    ELSE LET c == names[1]
             f == IF HasCol(frame, c)
                  THEN SetCol(frame, c,
                         [i \in DOMAIN frame.rows |-> CellNum(frame, frame.rows[i], c)])
                  ELSE frame
         IN  ToNumericCols(f, Tail(names))

\* the mean of the populated cells of a row over the listed columns; NaN when
\* none is populated: df[months].mean(axis=1)
RECURSIVE RowSum(_, _, _)
RowSum(frame, row, names) ==
    IF Len(names) = 0 THEN IntVal(0)
    ELSE LET v == CellNum(frame, row, names[1])
             rest == RowSum(frame, row, Tail(names))
         IN  IF IsNaN(v) THEN rest ELSE RAdd(v, rest)

RowCount(frame, row, names) ==
    Cardinality({j \in DOMAIN names : ~IsNaN(CellNum(frame, row, names[j]))})

RowMean(frame, row, names) ==
    RDiv(RowSum(frame, row, names), IntVal(RowCount(frame, row, names)))

\* df.dropna(subset=[c]): the rows keep their order
DropNa(frame, c) ==
    LET keep(row) == ~IsNaN(row[c].v)
    IN  [frame EXCEPT !.rows = SelectSeq(frame.rows, keep)]

\* df[c].min(), df[c].max(): NaN over no rows
RECURSIVE ColMin(_, _, _)
ColMin(frame, c, i) ==
    IF i > Len(frame.rows) THEN NaN
    ELSE LET v == frame.rows[i][c].v
             rest == ColMin(frame, c, i + 1)
         IN  IF IsNaN(rest) \/ RLe(v, rest) THEN v ELSE rest

RECURSIVE ColMax(_, _, _)
ColMax(frame, c, i) ==
    IF i > Len(frame.rows) THEN NaN
    ELSE LET v == frame.rows[i][c].v
             rest == ColMax(frame, c, i + 1)
         IN  IF IsNaN(rest) \/ RLe(rest, v) THEN v ELSE rest

\* astype(int) of a finite float: truncation
Trunc(a) == IntVal(Sign(a.n) * (Abs(a.n) \div a.d))

\* the first name of the list that is a column, "" when none is
RECURSIVE FirstPresent(_, _)
FirstPresent(frame, names) ==
    IF Len(names) = 0 THEN ""
    ELSE IF HasCol(frame, names[1]) THEN names[1]
    ELSE FirstPresent(frame, Tail(names))

\* df.select_dtypes(include=[np.number]).columns, in column order
NumCols(frame) == LET isnum(c) == c \in frame.num IN SelectSeq(frame.cols, isnum)

\* pd.to_datetime of a column: a numeric column converts as it is, a string
\* converts when it is a date or missing, any other string raises
DatetimeOk(frame, c) ==
    \/ c \in frame.num
    \/ \A i \in DOMAIN frame.rows :
          IsDate(frame.rows[i][c].s) \/ IsNaToken(frame.rows[i][c].s)

Datetime(frame, c) ==
    [i \in DOMAIN frame.rows |->
        IF c \in frame.num THEN frame.rows[i][c].v ELSE DateValue(frame.rows[i][c].s)]

(***************************************************************************)
(* The transformation of the parsed table by each fetcher.  An outcome is  *)
(* a returned table, the returned None, or an exception leaving the        *)
(* function, with the diagnostics shown on the way.                        *)
(***************************************************************************)
Outcome(kind, frame, ds) == [kind |-> kind, df |-> frame, diags |-> ds]

ReturnNone(ds) == Outcome("none", EmptyFrame, ds)

Raise(ds) == Outcome("raise", EmptyFrame, ds)

\* pd.isna(minv) or pd.isna(maxv) or (maxv - minv) == 0
RangeIsUnusable(minv, maxv) ==
    IsNaN(minv) \/ IsNaN(maxv) \/ RSub(maxv, minv) = IntVal(0)

\* the rescaling with the distance taken from the maximum
RescaleFromMax(v, minv, maxv) == RDiv(RSub(maxv, v), RSub(maxv, minv))

\* (df[c] - minv) / (maxv - minv), for one value
Rescale(v, minv, maxv) == RDiv(RSub(v, minv), RSub(maxv, minv))

\* the normalization to 0..1 of column c, closing both fetchers
Normalization(frame, c, diag) ==
    LET minv == ColMin(frame, c, 1)
        maxv == ColMax(frame, c, 1)
    IN  IF RangeIsUnusable(minv, maxv) THEN ReturnNone(<<diag>>)
        ELSE Outcome("table",
                     SetCol(frame, "scaled",
                            [i \in DOMAIN frame.rows |->
                                Rescale(frame.rows[i][c].v, minv, maxv)]),
                     <<>>)

AllMonths(frame) == \A j \in DOMAIN months : HasCol(frame, months[j])

\* the 'annual' column: the mean of the twelve months, else the first
\* alternative annual column, else the last numeric column, else no column
WithAnnual(frame) ==
    IF AllMonths(frame)
    THEN SetCol(frame, "annual",
                [i \in DOMAIN frame.rows |-> RowMean(frame, frame.rows[i], months)])
    ELSE LET alt == FirstPresent(frame, alt_cols)
             num_cols == NumCols(frame)
             from(c) == SetCol(frame, "annual",
                               [i \in DOMAIN frame.rows |->
                                   CellNum(frame, frame.rows[i], c)])
         IN  IF alt # "" THEN from(alt)
             ELSE IF Len(num_cols) > 0 THEN from(num_cols[Len(num_cols)])
             ELSE frame

\* df["year"] = pd.to_numeric(df["year"], errors="coerce").astype(int): the
\* cast raises on a missing value
YearCastRaises(frame) ==
    \E i \in DOMAIN frame.rows : ~IsFinite(CellNum(frame, frame.rows[i], "year"))

WithYear(frame) ==
    IF HasCol(frame, "year")
    THEN SetCol(frame, "year",
                [i \in DOMAIN frame.rows |->
                    Trunc(CellNum(frame, frame.rows[i], "year"))])
    ELSE frame

\* fetch_f1_data from the check of the parsed table to its return
F1Transform(frame) ==
    IF IsEmpty(frame) THEN ReturnNone(<<"error: F1 table is empty">>)
    ELSE
      LET renamed == Rename(frame, "Year", "year")
          numeric == ToNumericCols(renamed, months)
          annual == WithAnnual(numeric)
      IN  IF ~HasCol(annual, "annual") THEN Raise(<<>>)
          ELSE LET valid == DropNa(annual, "annual")
               IN  IF HasCol(valid, "year") /\ YearCastRaises(valid) THEN Raise(<<>>)
                   ELSE Normalization(WithYear(valid), "annual",
                                      "error: F1 values cannot be normalized")

\* the 'time' column of fetch_f4_data: [raised, frame, diagnostics]
F4Time(frame) ==
    LET set(c) == SetCol(frame, "time", Datetime(frame, c))
    IN  IF HasCol(frame, "time [yyyy-mm-dd]")
        THEN IF DatetimeOk(frame, "time [yyyy-mm-dd]")
             THEN Outcome("table", set("time [yyyy-mm-dd]"), <<>>)
             ELSE Raise(<<>>)
        ELSE IF HasCol(frame, "time")
        THEN IF DatetimeOk(frame, "time")
             THEN Outcome("table", set("time"), <<>>)
             ELSE Raise(<<>>)
        ELSE IF Len(frame.cols) > 0 /\ DatetimeOk(frame, frame.cols[1])
        THEN Outcome("table", set(frame.cols[1]), <<>>)
        ELSE Outcome("table", frame, <<"warning: no exact time column">>)

\* the renaming of the value column of fetch_f4_data
F4Global(frame) ==
    IF HasCol(frame, "global [cm]") THEN Rename(frame, "global [cm]", "global_cm")
    ELSE IF ~HasCol(frame, "global_cm") /\ HasCol(frame, "global")
    THEN Rename(frame, "global", "global_cm")
    ELSE frame

\* fetch_f4_data from the inspection of the table to its return
F4Transform(frame) ==
    LET timed == F4Time(frame)
    IN  IF timed.kind = "raise" THEN timed
        ELSE
          LET named == F4Global(timed.df)
          IN  IF ~HasCol(named, "global_cm")
              THEN ReturnNone(timed.diags \o <<"error: no global column">>)
              ELSE
                LET numeric == ToNumericCols(named, <<"global_cm">>)
                    valid == DropNa(numeric, "global_cm")
                    out == Normalization(valid, "global_cm",
                                         "error: F4 values cannot be normalized")
                IN  [out EXCEPT !.diags = timed.diags \o out.diags]

(***************************************************************************)
(* The texts a server or a local file may hold.  A table text is a         *)
(* preamble, a header line and up to MaxRows data lines, all separated the *)
(* same way; a data line gives its first column, its second column and     *)
(* every further column.                                                   *)
(***************************************************************************)
Preamble == Line(" ", <<"Land-Ocean:", "Global", "Means">>)

RowToks(kind, width) ==
    [j \in 1..width |-> IF j = 1 THEN kind[1] ELSE IF j = 2 THEN kind[2] ELSE kind[3]]

RowSeqs(kinds, n) == UNION {[1..k -> kinds] : k \in 0..n}

TableText(pre, sep, header, rows) ==
    [i \in 1..pre |-> Preamble]
        \o <<Line(sep, header)>>
        \o [i \in DOMAIN rows |-> Line(sep, RowToks(rows[i], Len(header)))]

\* a table text whose last data line has one field too many
RaggedText(sep, header) ==
    <<Line(sep, header),
      Line(sep, RowToks(<<"2020", "0", "1">>, Len(header))),
      Line(sep, RowToks(<<"2021", "2", "1">>, Len(header) + 1))>>

GistempHeader == <<"Year">> \o months

F1Headers ==
    {GistempHeader, <<"Year", "J-D">>, <<"Year", "Temp">>, <<"Year", "Note">>,
     <<"Date", "J-D">>, <<"year", "Annual">>}

F1RowKinds ==
    {<<"2020", "0", "1">>, <<"2021", "2", "1">>, <<"2019", "***", "1">>,
     <<"***", "1", "1">>, <<"2022", "***", "***">>}

MainF1RowKinds == {<<"2020", "0", "1">>, <<"2021", "2", "1">>, <<"2019", "***", "1">>}

F1Texts ==
    {TableText(IF h = GistempHeader THEN 1 ELSE 0, sep, h, rows) :
        sep \in {",", " "}, h \in F1Headers, rows \in RowSeqs(F1RowKinds, MaxRows)}
    \cup {RaggedText(sep, <<"Year", "J-D">>) : sep \in {",", " "}}
    \cup {<<>>}

MainF1Texts ==
    {TableText(1, sep, GistempHeader, rows) :
        sep \in {",", " "}, rows \in RowSeqs(MainF1RowKinds, MaxRows)}

GravisHeader == <<"time [yyyy-mm-dd]", "global [cm]">>

F4Headers ==
    {GravisHeader, <<"time", "global">>, <<"date", "global_cm">>,
     <<"time", "value">>, <<"global_cm", "region">>}

F4RowKinds ==
    {<<"2020-02-01", "0", "a">>, <<"2020-03-01", "2", "a">>, <<"2020-01-01", "***", "a">>,
     <<"***", "1", "a">>, <<"2020-04-01", "1", "a">>}

MainF4RowKinds ==
    {<<"2020-02-01", "0", "a">>, <<"2020-03-01", "2", "a">>, <<"2020-01-01", "***", "a">>}

F4Texts ==
    {TableText(0, ",", h, rows) :
        h \in F4Headers, rows \in RowSeqs(F4RowKinds, MaxRows)}
    \cup {TableText(0, " ", <<"time", "global">>, rows) :
            rows \in RowSeqs(F4RowKinds, MaxRows)}
    \cup {RaggedText(",", <<"time", "global">>)}
    \cup {<<>>}

MainF4Texts ==
    {TableText(0, ",", GravisHeader, rows) : rows \in RowSeqs(MainF4RowKinds, MaxRows)}

\* texts of MaxLines lines with a header line and a line naming only 'Year'
\* placed anywhere (or nowhere) among data lines
DataLine == Line(" ", <<"2020", "1">>)

MarkedLines ==
    {Line(" ", <<"Year", "Jan">>), Line(" ", <<"Year", "Dec">>), Line(" ", <<"Mon", "Jan">>)}

LongText(a, markA, b) ==
    [i \in 1..MaxLines |->
        IF i = a THEN markA
        ELSE IF i = b THEN Line(" ", <<"Year", "J-D">>)
        ELSE DataLine]

LongTexts ==
    {LongText(a, markA, b) :
        a \in 1..(MaxLines + 1), markA \in MarkedLines, b \in 1..(MaxLines + 1)}

ParseTexts == LongTexts \cup F1Texts

\* the state of the local fallback path: no file, a file that cannot be read,
\* or a file with a text
NoFile == [state |-> "absent", text |-> <<>>]

Unreadable == [state |-> "unreadable", text |-> <<>>]

FileWith(text) == [state |-> "text", text |-> text]

F1Served(who) == IF who = "main" THEN MainF1Texts ELSE F1Texts

F4Served(who) == IF who = "main" THEN MainF4Texts ELSE F4Texts

F1Files(who) == {NoFile, Unreadable} \cup {FileWith(t) : t \in F1Served(who)}

F4Files(who) == {NoFile, Unreadable} \cup {FileWith(t) : t \in F4Served(who)}

\* possible_urls: None or a list of up to MaxUrls URLs
UrlLists == {[i \in 1..k |-> i] : k \in 0..MaxUrls}

(***************************************************************************)
(* State.  pc is the position of the running code, caller who called the   *)
(* fetcher ("test": a direct call, "main": the script); txt, df and urls   *)
(* are the fetcher's locals; io lists the requests and file reads of the   *)
(* call, diags what st.error/st.info/st.warning showed; ret is what the    *)
(* call returned; f1_df, f4_df and page belong to the script.              *)
(***************************************************************************)
None == [some |-> FALSE, val |-> EmptyFrame]

Some(frame) == [some |-> TRUE, val |-> frame]

NoRet == [fn |-> "", kind |-> "", df |-> EmptyFrame]

Get(url, status) == [op |-> "get", target |-> url, status |-> status]

Read(status) == [op |-> "read", target |-> 0, status |-> status]

Item(kind, what, v) == [kind |-> kind, what |-> what, v |-> v]

Init ==
    /\ pc = "idle"
    /\ caller = ""
    /\ txt = <<>>
    /\ df = None
    /\ urls = <<>>
    /\ io = <<>>
    /\ diags = <<>>
    /\ ret = NoRet
    /\ f1_df = None
    /\ f4_df = None
    /\ page = <<>>

Script == <<caller, f1_df, f4_df, page>>

\* the end of a call: the value (or the exception) reaches the caller
Finish(fn, kind, frame) ==
    /\ pc' = "returned"
    /\ ret' = [fn |-> fn, kind |-> kind, df |-> frame]

(************************** parse_whitespace_table_from_text ***************)
ParseCall ==
    /\ pc = "idle"
    /\ \E text \in ParseTexts : txt' = text
    /\ pc' = "parsing"
    /\ caller' = "test"
    /\ UNCHANGED <<df, urls, io, diags, ret, f1_df, f4_df, page>>

ParseReturn ==
    /\ pc = "parsing"
    /\ LET r == parse_whitespace_table_from_text(txt)
       IN  Finish("parse", IF r.ok THEN "table" ELSE "raise", r.df)
    /\ UNCHANGED <<txt, df, urls, io, diags>>
    /\ UNCHANGED Script

(************************** fetch_f1_data **********************************)
CallF1 ==
    /\ pc = "idle"
    /\ pc' = "f1_request"
    /\ caller' = "test"
    /\ UNCHANGED <<txt, df, urls, io, diags, ret, f1_df, f4_df, page>>

\* the handler of the remote failure, up to the attempt on the local file
F1RemoteFailed(status) ==
    /\ io' = Append(io, Get(0, status))
    /\ diags' = Append(diags, "error: F1 download failed")
    /\ pc' = "f1_fallback"
    /\ UNCHANGED <<df, urls, ret>>

\* requests.get or raise_for_status raises
F1RequestFails ==
    /\ pc = "f1_request"
    /\ F1RemoteFailed("error")
    /\ UNCHANGED txt
    /\ UNCHANGED Script

\* the server answers with a text, which is parsed inside the same try
F1RequestAnswers ==
    /\ pc = "f1_request"
    /\ \E text \in F1Served(caller) :
          LET r == parse_whitespace_table_from_text(text)
          IN  /\ txt' = text
              /\ IF r.ok
                 THEN /\ df' = Some(r.df)
                      /\ io' = Append(io, Get(0, "ok"))
                      /\ pc' = "f1_transform"
                      /\ UNCHANGED <<urls, diags, ret>>
                 ELSE F1RemoteFailed("unparseable")
    /\ UNCHANGED Script

\* no file at local_fallback
F1FallbackMissing ==
    /\ pc = "f1_fallback"
    /\ diags' = Append(diags, "error: no local fallback")
    /\ Finish("f1", "none", EmptyFrame)
    /\ UNCHANGED <<txt, df, urls, io>>
    /\ UNCHANGED Script

\* the file exists: it is read and parsed, or the reading or parsing raises
F1FallbackRead ==
    /\ pc = "f1_fallback"
    /\ \E file \in F1Files(caller) \ {NoFile} :
          LET r == parse_whitespace_table_from_text(file.text)
              good == file.state = "text" /\ r.ok
          IN  /\ io' = Append(io, Read(IF good THEN "ok" ELSE "error"))
              /\ txt' = file.text
              /\ IF good
                 THEN /\ df' = Some(r.df)
                      /\ diags' = Append(diags, "info: loading local fallback")
                      /\ pc' = "f1_transform"
                      /\ UNCHANGED ret
                 ELSE /\ diags' = diags \o <<"info: loading local fallback",
                                             "error: local fallback unreadable">>
                      /\ Finish("f1", "none", EmptyFrame)
                      /\ UNCHANGED df
    /\ UNCHANGED urls
    /\ UNCHANGED Script

F1Return ==
    /\ pc = "f1_transform"
    /\ LET o == F1Transform(df.val)
       IN  /\ diags' = diags \o o.diags
           /\ Finish("f1", o.kind, o.df)
    /\ UNCHANGED <<txt, df, urls, io>>
    /\ UNCHANGED Script

(************************** fetch_f4_data **********************************)
CallF4 ==
    /\ pc = "idle"
    /\ \E list \in UrlLists :
          /\ urls' = list
          /\ pc' = IF Len(list) > 0 THEN "f4_request" ELSE "f4_local"
    /\ caller' = "test"
    /\ UNCHANGED <<txt, df, io, diags, ret, f1_df, f4_df, page>>

\* a failed turn of the loop that asks the same URL again
F4UrlFailedRetry(status) ==
    /\ io' = Append(io, Get(urls[1], status))
    /\ df' = None
    /\ pc' = "f4_request"
    /\ UNCHANGED <<urls, diags, ret>>

\* one turn of the loop over possible_urls whose try block raises
F4UrlFailed(status) ==
    /\ io' = Append(io, Get(urls[1], status))
    /\ df' = None
    /\ urls' = Tail(urls)
    /\ pc' = IF Len(urls) > 1 THEN "f4_request" ELSE "f4_local"
    /\ UNCHANGED <<diags, ret>>

F4RequestFails ==
    /\ pc = "f4_request"
    /\ F4UrlFailed("error")
    /\ UNCHANGED txt
    /\ UNCHANGED Script

F4RequestAnswers ==
    /\ pc = "f4_request"
    /\ \E text \in F4Served(caller) :
          LET r == ReadCsv(text, ",")
          IN  /\ txt' = text
              /\ IF r.ok
                 THEN /\ df' = Some(r.df)
                      /\ io' = Append(io, Get(urls[1], "ok"))
                      /\ pc' = "f4_transform"
                      /\ UNCHANGED <<urls, diags, ret>>
                 ELSE F4UrlFailed("unparseable")
    /\ UNCHANGED Script

\* df is None after the loop: the local fallback, or the failure
F4LocalMissing ==
    /\ pc = "f4_local"
    /\ diags' = diags \o <<"error: F4 could not be read", "error: upload the F4 file">>
    /\ Finish("f4", "none", EmptyFrame)
    /\ UNCHANGED <<txt, df, urls, io>>
    /\ UNCHANGED Script

F4LocalRead ==
    /\ pc = "f4_local"
    /\ \E file \in F4Files(caller) \ {NoFile} :
          LET r == ReadCsv(file.text, ",")
              good == file.state = "text" /\ r.ok
          IN  /\ io' = Append(io, Read(IF good THEN "ok" ELSE "error"))
              /\ txt' = file.text
              /\ IF good
                 THEN /\ df' = Some(r.df)
                      /\ pc' = "f4_transform"
                      /\ UNCHANGED <<diags, ret>>
                 ELSE /\ diags' = diags \o <<"error: F4 could not be read",
                                             "error: upload the F4 file">>
                      /\ Finish("f4", "none", EmptyFrame)
                      /\ UNCHANGED df
    /\ UNCHANGED urls
    /\ UNCHANGED Script

F4Return ==
    /\ pc = "f4_transform"
    /\ LET o == F4Transform(df.val)
       IN  /\ diags' = diags \o o.diags
           /\ Finish("f4", o.kind, o.df)
    /\ UNCHANGED <<txt, df, urls, io>>
    /\ UNCHANGED Script

(************************** the main script ********************************)
Locals == <<txt, df, urls, io>>

\* f1_df = fetch_f1_data(local_fallback="data/F1_gistemp.csv")
MainStart ==
    /\ pc = "idle"
    /\ caller' = "main"
    /\ pc' = "f1_request"
    /\ UNCHANGED <<txt, df, urls, io, diags, ret, f1_df, f4_df, page>>

Value(r) == IF r.kind = "table" THEN Some(r.df) ELSE None

\* fetch_f1_data is back: an exception ends the script, else
\* f4_df = fetch_f4_data(local_fallback="data/F4_water.csv", possible_urls=None)
MainF1Returned ==
    /\ pc = "returned"
    /\ caller = "main"
    /\ ret.fn = "f1"
    /\ IF ret.kind = "raise"
       THEN /\ pc' = "crashed"
            /\ UNCHANGED <<f1_df, txt, df, urls, io>>
       ELSE /\ f1_df' = Value(ret)
            /\ pc' = "f4_local"
            /\ txt' = <<>>
            /\ df' = None
            /\ urls' = <<>>
            /\ io' = <<>>
    /\ UNCHANGED <<caller, diags, ret, f4_df, page>>

MainF4Returned ==
    /\ pc = "returned"
    /\ caller = "main"
    /\ ret.fn = "f4"
    /\ IF ret.kind = "raise"
       THEN /\ pc' = "crashed"
            /\ UNCHANGED f4_df
       ELSE /\ f4_df' = Value(ret)
            /\ pc' = "main_guard_f1"
    /\ UNCHANGED <<caller, txt, df, urls, io, diags, ret, f1_df, page>>

\* if f1_df is None: st.error(...); st.stop()
MainGuardF1 ==
    /\ pc = "main_guard_f1"
    /\ IF ~f1_df.some
       THEN /\ page' = Append(page, Item("error", "F1 data missing", NaN))
            /\ pc' = "stopped"
       ELSE /\ pc' = "main_guard_f4"
            /\ UNCHANGED page
    /\ UNCHANGED <<caller, txt, df, urls, io, diags, ret, f1_df, f4_df>>

\* the script without its guard on f4_df
MainGuardF4Skips ==
    /\ pc = "main_guard_f4"
    /\ pc' = "main_cards"
    /\ UNCHANGED <<caller, txt, df, urls, io, diags, ret, f1_df, f4_df, page>>

\* if f4_df is None: st.error(...); st.stop()
MainGuardF4 ==
    /\ pc = "main_guard_f4"
    /\ IF ~f4_df.some
       THEN /\ page' = Append(page, Item("error", "F4 data missing", NaN))
            /\ pc' = "stopped"
       ELSE /\ pc' = "main_cards"
            /\ UNCHANGED page
    /\ UNCHANGED <<caller, txt, df, urls, io, diags, ret, f1_df, f4_df>>

\* float(d["scaled"].iloc[-1]) succeeds on a table with a 'scaled' column and a row
HasLatest(d) == d.some /\ HasCol(d.val, "scaled") /\ Len(d.val.rows) > 0

Latest(d) == d.val.rows[Len(d.val.rows)]["scaled"].v

\* the two latest values, each under its try, and the two cards showing them
MainCards ==
    /\ pc = "main_cards"
    /\ IF ~HasLatest(f1_df)
       THEN /\ page' = Append(page, Item("error", "F1 processing failed", NaN))
            /\ pc' = "stopped"
       ELSE IF ~HasLatest(f4_df)
       THEN /\ page' = Append(page, Item("error", "F4 processing failed", NaN))
            /\ pc' = "stopped"
       ELSE /\ page' = page \o <<Item("card", "F1", Latest(f1_df)),
                                 Item("card", "F4", Latest(f4_df))>>
            /\ pc' = "main_charts"
    /\ UNCHANGED <<caller, txt, df, urls, io, diags, ret, f1_df, f4_df>>

\* px.line(f1_df, x="year", y="annual") raises without the column 'year'; the
\* F4 chart takes 'time' or else the first column
MainCharts ==
    /\ pc = "main_charts"
    /\ IF ~HasCol(f1_df.val, "year")
       THEN /\ pc' = "crashed"
            /\ UNCHANGED page
       ELSE /\ page' = page \o <<Item("chart", "F1", NaN), Item("chart", "F4", NaN)>>
            /\ pc' = "rendered"
    /\ UNCHANGED <<caller, txt, df, urls, io, diags, ret, f1_df, f4_df>>

(***************************************************************************)
(* Specifications: a direct call of one fetcher (Spec), a direct call of   *)
(* the parser (SpecParse), and one run of the script (SpecMain).           *)
(***************************************************************************)
Next ==
    \/ CallF1
    \/ F1RequestFails
    \/ F1RequestAnswers
    \/ F1FallbackMissing
    \/ F1FallbackRead
    \/ F1Return
    \/ CallF4
    \/ F4RequestFails
    \/ F4RequestAnswers
    \/ F4LocalMissing
    \/ F4LocalRead
    \/ F4Return

Spec == Init /\ [][Next]_vars

NextParse == ParseCall \/ ParseReturn

SpecParse == Init /\ [][NextParse]_vars

NextMain ==
    \/ MainStart
    \/ F1RequestFails
    \/ F1RequestAnswers
    \/ F1FallbackMissing
    \/ F1FallbackRead
    \/ F1Return
    \/ MainF1Returned
    \/ F4LocalMissing
    \/ F4LocalRead
    \/ F4Return
    \/ MainF4Returned
    \/ MainGuardF1
    \/ MainGuardF4
    \/ MainCards
    \/ MainCharts

SpecMain == Init /\ [][NextMain]_vars

(***************************************************************************)
(* Properties.                                                             *)
(***************************************************************************)
FetcherReturned == pc = "returned" /\ ret.fn \in {"f1", "f4"}

TableReturned == FetcherReturned /\ ret.kind = "table"

GetEvents == {i \in DOMAIN io : io[i].op = "get"}

ReadEvents == {i \in DOMAIN io : io[i].op = "read"}

RawCol == IF ret.fn = "f1" THEN "annual" ELSE "global_cm"

AxisCol == IF ret.fn = "f1" THEN "year" ELSE "time"

RawAt(i) == ret.df.rows[i][RawCol].v

ScaledAt(i) == ret.df.rows[i]["scaled"].v

AxisAt(i) == ret.df.rows[i][AxisCol].v

ValidF1File ==
    TableText(1, " ", GistempHeader, <<<<"2020", "0", "1">>, <<"2021", "2", "1">>>>)

ValidF4File ==
    TableText(0, ",", GravisHeader,
              <<<<"2020-02-01", "0", "a">>, <<"2020-03-01", "2", "a">>>>)

RemoteFailureDiagnosed ==
    \E i \in DOMAIN diags :
        diags[i] \in {"error: F1 download failed", "error: F4 download failed"}

\* C1: when every remote request of a call failed with a transport error and
\* a readable, valid local file was there, the fetcher returns the table of
\* the local file and has shown a diagnostic of the remote failure.
C1_FallbackWithDiagnostic ==
    ( /\ FetcherReturned
      /\ GetEvents # {}
      /\ \A i \in GetEvents : io[i].status = "error"
      /\ \E i \in ReadEvents : io[i].status = "ok"
      /\ txt = (IF ret.fn = "f1" THEN ValidF1File ELSE ValidF4File) )
    => ( /\ ret.kind = "table"
         /\ Len(ret.df.rows) = 2
         /\ RemoteFailureDiagnosed )

\* C2: whatever the remote answer, the local file and the shape of the parsed
\* table, a fetcher ends by returning a table or None: no exception leaves it.
C2_NoExceptionEscapes == FetcherReturned => ret.kind \in {"table", "none"}

\* the numbers that survive in the target column of the parsed table df, as
\* the fetcher that returned resolves that column
SurvivingFrame ==
    IF ret.fn = "f1"
    THEN LET a == WithAnnual(ToNumericCols(Rename(df.val, "Year", "year"), months))
         IN  IF HasCol(a, "annual") THEN DropNa(a, "annual") ELSE EmptyFrame
    ELSE LET g == F4Global(df.val)
         IN  IF HasCol(g, "global_cm")
             THEN DropNa(ToNumericCols(g, <<"global_cm">>), "global_cm")
             ELSE EmptyFrame

HasTarget ==
    IF ret.fn = "f1"
    THEN HasCol(WithAnnual(ToNumericCols(Rename(df.val, "Year", "year"), months)),
                "annual")
    ELSE HasCol(F4Global(df.val), "global_cm")

SurvivingValues ==
    {SurvivingFrame.rows[i][RawCol].v : i \in DOMAIN SurvivingFrame.rows}

NormalizationRefused ==
    /\ ret.kind = "none"
    /\ Len(diags) > 0
    /\ diags[Len(diags)] \in {"error: F1 values cannot be normalized",
                              "error: F4 values cannot be normalized"}

\* C4: a table whose surviving target values are all the same, or of which no
\* value survives, makes the fetcher return None with the error diagnostic,
\* and no returned table holds a 'scaled' entry that is not a finite number.
C4_DegenerateRangeRefused ==
    /\ ( /\ FetcherReturned
         /\ df.some
         /\ ~IsEmpty(df.val)
         /\ HasTarget
         /\ Cardinality(SurvivingValues) <= 1 )
       => NormalizationRefused
    /\ TableReturned => \A i \in DOMAIN ret.df.rows : IsFinite(ScaledAt(i))

\* C5: a parsed table with none of the axis columns ('Year'/'year' for F1,
\* 'time [yyyy-mm-dd]'/'time' for F4) makes the fetcher return a failure;
\* stated of the tables that do have a value column.
C5_MissingAxisFails ==
    ( /\ FetcherReturned
      /\ df.some
      /\ ~IsEmpty(df.val)
      /\ HasTarget
      /\ IF ret.fn = "f1"
         THEN ~HasCol(df.val, "Year") /\ ~HasCol(df.val, "year")
         ELSE ~HasCol(df.val, "time [yyyy-mm-dd]") /\ ~HasCol(df.val, "time") )
    => ret.kind = "none"

\* C6: in every returned table the scaled values lie in [0,1], are 0 on the
\* records of the minimum raw value and 1 on those of the maximum, and grow
\* with the raw value; the table has at least two distinct raw values.
C6_ScaledIsMinMax ==
    TableReturned =>
      LET I == DOMAIN ret.df.rows
      IN  /\ \E i, j \in I : RawAt(i) # RawAt(j)
          /\ \A i \in I :
                /\ IsFinite(ScaledAt(i))
                /\ RLe(IntVal(0), ScaledAt(i))
                /\ RLe(ScaledAt(i), IntVal(1))
          /\ \A i \in I :
                (\A j \in I : RLe(RawAt(i), RawAt(j))) => ScaledAt(i) = IntVal(0)
          /\ \A i \in I :
                (\A j \in I : RLe(RawAt(j), RawAt(i))) => ScaledAt(i) = IntVal(1)
          /\ \A i, j \in I : RLe(RawAt(i), RawAt(j)) => RLe(ScaledAt(i), ScaledAt(j))

\* a table is returned whose scaled values are 0, 1 and a value in between
C6_Witness ==
    /\ TableReturned
    /\ \E i, j, k \in DOMAIN ret.df.rows :
          /\ ScaledAt(i) = IntVal(0)
          /\ ScaledAt(j) = IntVal(1)
          /\ RLt(IntVal(0), ScaledAt(k))
          /\ RLt(ScaledAt(k), IntVal(1))

\* C9: every returned table is in ascending order of its axis column.
C9_SortedByAxis ==
    (TableReturned /\ HasCol(ret.df, AxisCol)) =>
      \A i, j \in DOMAIN ret.df.rows : i < j => RLe(AxisAt(i), AxisAt(j))

IsRendering(item) == item.kind \in {"card", "chart"}

Rendered(what) == \E i \in DOMAIN page : IsRendering(page[i]) /\ page[i].what = what

\* C3: in a run of the script where exactly one of the two fetchers returned
\* None, the script still renders the other indicator.
C3_OtherIndicatorRendered ==
    (pc \in {"stopped", "rendered"} /\ f1_df.some # f4_df.some) =>
      IF f1_df.some THEN Rendered("F1") ELSE Rendered("F4")

\* C3 as the script has it: a None from a fetcher lets nothing be rendered.
\* The script goes past its guard on an indicator only with that indicator's
\* table, cards and charts are shown only when both fetchers returned a
\* table, and where the script stops it has shown only the error message
\* naming the missing indicator.
C3_MissingIndicatorStopsScript ==
    /\ pc \in {"main_guard_f4", "main_cards", "main_charts", "rendered"} => f1_df.some
    /\ pc \in {"main_cards", "main_charts", "rendered"} => f4_df.some
    /\ (\E i \in DOMAIN page : IsRendering(page[i])) => (f1_df.some /\ f4_df.some)
    /\ pc = "stopped" =>
          /\ ~f1_df.some \/ ~f4_df.some
          /\ page = <<Item("error",
                           IF ~f1_df.some THEN "F1 data missing" ELSE "F4 data missing",
                           NaN)>>

\* the script stopped although only F1 failed and F4 returned its table
C3_Witness ==
    /\ pc = "stopped"
    /\ ~f1_df.some
    /\ f4_df.some
    /\ page = <<Item("error", "F1 data missing", NaN)>>

\* indices (from 0) of the lines of txt, and the two kinds of header line
LineIdx == 0..(Len(txt) - 1)

IsMonthHeader(k) == LineHasYear(txt[k + 1]) /\ LineHasMonth(txt[k + 1])

IsYearLine(k) == LineHasYear(txt[k + 1])

MonthHeaders == {k \in LineIdx : k < HeaderScan /\ IsMonthHeader(k)}

YearLines == {k \in LineIdx : k < YearScan /\ IsYearLine(k)}

Least(S) == CHOOSE k \in S : \A m \in S : k <= m

\* the table has line k of txt as its header row and one row for every line
\* after it, the k lines before it being discarded
HeaderIsLine(k) ==
    /\ ret.df.cols = Fields(txt[k + 1], " ")
    /\ Len(ret.df.rows) = Len(txt) - k - 1

\* C7: the header row is the first of the first 20 lines holding 'Year' with
\* 'Jan' or 'Dec'; failing that, the first of the first 40 lines holding
\* 'Year'; failing that, the whole text is parsed as it is.
C7_HeaderDetection ==
    (pc = "returned" /\ ret.fn = "parse" /\ ret.kind = "table"
       /\ \A i \in DOMAIN txt : NonBlank(txt[i])) =>
      IF MonthHeaders # {} THEN HeaderIsLine(Least(MonthHeaders))
      ELSE IF YearLines # {} THEN HeaderIsLine(Least(YearLines))
      ELSE IF Len(txt) = 0 THEN ret.df = EmptyFrame
      ELSE /\ ret.df.cols = Fields(txt[1], ",")
           /\ Len(ret.df.rows) = Len(txt) - 1

\* five lines without 'Year', then a month header: line 6 became the header
C7_Witness ==
    /\ pc = "returned"
    /\ ret.fn = "parse"
    /\ ret.kind = "table"
    /\ Len(txt) > 6
    /\ MonthHeaders # {}
    /\ Least(MonthHeaders) = 5
    /\ \A k \in 0..4 : ~IsYearLine(k)
    /\ ret.df.cols = <<"Year", "Jan">>
    /\ Len(ret.df.rows) = Len(txt) - 6

\* C8: in one call there is at most one remote request and at most one read
\* of the local file, no request follows a failed request, and the file is
\* read only after a failed request or when no URL is configured.
C8_SingleRemoteAttempt ==
    /\ Cardinality(GetEvents) <= 1
    /\ Cardinality(ReadEvents) <= 1
    /\ \A i, j \in GetEvents : (i < j) => io[i].status = "ok"
    /\ \A j \in ReadEvents : \A i \in 1..(j - 1) : io[i].op = "get" /\ io[i].status # "ok"

\* C8 as the code has it: each URL is asked at most once, in the order of the
\* list, and no request follows an answered one (fetch_f1_data asks its one
\* URL once); the local file is read at most once, after every request of the
\* call has failed, and nothing follows the read.
C8_EachUrlOnceThenLocalOnce ==
    /\ \A i \in GetEvents : io[i].target = (IF io[1].target = 0 THEN 0 ELSE i)
    /\ \A i, j \in GetEvents : (i < j) => io[i].status # "ok" /\ io[i].target # io[j].target
    /\ Cardinality(ReadEvents) <= 1
    /\ \A j \in ReadEvents :
          /\ j = Len(io)
          /\ \A i \in 1..(j - 1) : io[i].op = "get" /\ io[i].status # "ok"
    /\ (\E i \in GetEvents : io[i].target = 0) => Cardinality(GetEvents) = 1

\* two URLs failed one after the other, then the local file was read
C8_Witness ==
    /\ FetcherReturned
    /\ Len(io) = 3
    /\ io[1] = Get(1, "error")
    /\ io[2] = Get(2, "error")
    /\ io[3] = Read("ok")

\* C10: the text is split at commas first, at whitespace only when that fails
\* or gives one column: a comma-separated table under a detected header line
\* comes out with the columns of that header.
C10_CommaFirst ==
    (pc = "returned" /\ ret.fn = "parse" /\ header_idx(txt) >= 0
       /\ txt[header_idx(txt) + 1].sep = ","
       /\ \A i \in DOMAIN txt : i > header_idx(txt) + 1 =>
             Len(txt[i].toks) = Len(txt[header_idx(txt) + 1].toks)) =>
      /\ ret.kind = "table"
      /\ ret.df.cols = txt[header_idx(txt) + 1].toks

====
